---- MODULE Spec2Model ----
(***************************************************************************)
(* Order placement / inventory API (FastAPI + MongoDB).                    *)
(*                                                                         *)
(* The model follows src/app/routers/orders.py and                         *)
(* src/app/routers/inventory.py.  Every database call of a handler is one  *)
(* step, so concurrent requests interleave at database calls.              *)
(*                                                                         *)
(* place_order runs its inventory reads/writes and the order insert with   *)
(* session=session inside session.start_transaction() (orders.py:113-114), *)
(* i.e. as one MongoDB multi-document transaction on a deployment that     *)
(* supports them: the transaction reads from the snapshot taken by its     *)
(* first operation, its writes stay private until the commit performed     *)
(* when the with-block is left normally, a write to a document that was    *)
(* changed after the snapshot (or is being changed by another open         *)
(* transaction) raises a WriteConflict error, and leaving the with-block   *)
(* by an exception aborts.  get_next_order_id is called with db only, not  *)
(* with the session (orders.py:116), so the counter operations are plain   *)
(* writes outside the transaction.                                         *)
(***************************************************************************)
EXTENDS Integers, Sequences, FiniteSets, TLC

\* ---------------------------------------------------------------- bounds
NumRequests == 2      \* place_order requests that may run concurrently
MaxQty == 2           \* largest quantity of a request line (qty > 0)
MaxLines == 2         \* most lines of one request (min_length = 1)

Requests == 1..NumRequests

\* ------------------------------------------------------- values and store
None == "None"

\* A SKU string is a sequence of characters.
Blank == " "
UpperOf == [c \in {"a", "b", "x", "A", "B", "X", Blank} |->
              CASE c = "a" -> "A" [] c = "b" -> "B" [] c = "x" -> "X" [] OTHER -> c]

\* str.upper()
Upper(s) == [i \in 1..Len(s) |-> UpperOf[s[i]]]

RECURSIVE LStrip(_)
LStrip(s) == IF s # <<>> /\ Head(s) = Blank THEN LStrip(Tail(s)) ELSE s

RECURSIVE RStrip(_)
RStrip(s) ==
    IF s # <<>> /\ s[Len(s)] = Blank THEN RStrip(SubSeq(s, 1, Len(s) - 1)) ELSE s

\* str.strip()
Strip(s) == RStrip(LStrip(s))

\* upper() without strip()
NormalizeOrderSkuUpperOnly(s) == Upper(s)

\* item.sku.upper().strip()  (orders.py:99)
NormalizeOrderSku(s) == Strip(Upper(s))

\* normalize_sku: sku.strip().upper()  (inventory.py:12-13)
normalize_sku(s) == Upper(Strip(s))

\* SKUs of the stored inventory documents and their seeded stock, scaled down
\* from the seed list.
SeedStock == (<<"A">> :> 2) @@ (<<"B">> :> 1)
Skus == DOMAIN SeedStock

\* The request lines clients send.  SKU strings: exact ("A", "B"), needing
\* upper() and strip() ("a "), unknown ("X").  Every quantity for the two
\* stored SKUs, one line for the second spelling of a stored SKU and one for
\* the unknown SKU.
RequestLines ==
    {[sku |-> s, qty |-> q] : s \in {<<"a", Blank>>, <<"B">>}, q \in 1..MaxQty}
        \cup {[sku |-> s, qty |-> 1] : s \in {<<"A">>, <<"X">>}}

\* SKU strings sent to update_stock: a stored one and an unknown one.
AdminSkus == {<<"a", Blank>>, <<"X">>}

CustomerNames == {"Rahul"}

\* schemas.OrderItemCreate / schemas.OrderCreate
OrderItemCreate == RequestLines
ItemLists == UNION {[1..n -> OrderItemCreate] : n \in 1..MaxLines}
OrderCreate == [customer_name : CustomerNames, items : ItemLists]

\* An order document that exists before any modelled request (the state the
\* else-branch of get_next_order_id is written for: orders but no counter).
PriorOrder ==
    [oid |-> 0, order_id |-> 1, customer_name |-> "Rahul", status |-> "confirmed",
     items |-> <<[sku |-> <<"A">>, quantity |-> 1]>>, total_items |-> 1,
     fulfilment_status |-> "fully fulfilled"]

Min(a, b) == IF a < b THEN a ELSE b

RECURSIVE SumQty(_)
SumQty(items) == IF items = <<>> THEN 0 ELSE Head(items).qty + SumQty(Tail(items))

VARIABLES
    inventory,   \* db.inventory, committed: SKU -> stock
    counters,    \* db.counters, committed: set of counter documents
    orders,      \* db.orders, committed: set of order documents
    req,         \* per place_order request: position and locals of the handler
    hist,        \* per request: the store as it was when the request started
    admin,       \* response of the last update_stock request
    query        \* response of the last read request (get_order, get_item, list_inventory)

vars == <<inventory, counters, orders, req, hist, admin, query>>

\* db.list_collection_names() (orders.py:72): the three collections exist
\* (a collection exists without documents once it has been created).
Collections == {"inventory", "orders", "counters"}

NoResponse == [status_code |-> 0]
NoStock == [k \in Skus |-> 0]

Idle ==
    [pc |-> "idle", items |-> <<>>, customer_name |-> None, order_id |-> 0,
     new_id |-> 0, idx |-> 0, stock |-> 0, available_qty |-> 0,
     in_snapshot |-> FALSE, snapshot |-> NoStock, stale |-> {}, writes |-> <<>>,
     txn_orders |-> {}, fulfilment_items |-> <<>>, partial_fulfilment |-> FALSE,
     fulfilled_total |-> 0, response |-> NoResponse]

\* What the properties need to remember about a request: the store when it
\* arrived, the order ids handed out before, the requests in flight together
\* with it, whether nobody else has committed since it arrived, the order ids
\* its get_next_order_id saw in db.orders, whether it has read stock.
NoHist == [inv |-> NoStock, orders |-> {}, concurrent |-> {}, undisturbed |-> TRUE,
           started_after |-> {}, scanned |-> {}, touched |-> FALSE]

Init ==
    /\ inventory = SeedStock
    /\ counters = {}
    /\ orders \in {{}, {PriorOrder}}
    /\ req = [r \in Requests |-> Idle]
    /\ hist = [r \in Requests |-> NoHist]
    /\ admin = NoResponse
    /\ query = NoResponse

InFlight(r) == req[r].pc \notin {"idle", "done"}

\* ------------------------------------------------------------ transaction
\* What the transaction of request r sees for each SKU: its snapshot with its
\* own writes on top.
TxnView(r) ==
    [k \in Skus |-> IF k \in DOMAIN req[r].writes THEN req[r].writes[k]
                    ELSE req[r].snapshot[k]]

\* session.abort_transaction() / leaving the with-block by an exception: the
\* writes made with session=session are discarded.
TxnOnAbortKeepsWrites(inv, writes) ==
    [k \in DOMAIN inv |-> IF k \in DOMAIN writes THEN writes[k] ELSE inv[k]]

TxnOnAbort(inv, writes) == inv

\* The exception handler aborts a transaction that is still in progress
\* (orders.py:217-222); one that was aborted before is left alone.
AbortIfInTransaction(inv, writes, in_transaction) ==
    IF in_transaction THEN TxnOnAbort(inv, writes) ELSE inv

\* Leaving the with-block normally commits: the writes become the stored values.
TxnOnCommit(inv, writes) ==
    [k \in DOMAIN inv |-> IF k \in DOMAIN writes THEN writes[k] ELSE inv[k]]

\* A transactional write to document k conflicts when k was committed by
\* someone else after r's snapshot or is written by another open transaction.
WriteConflictNever(r, k) == FALSE

WriteConflict(r, k) ==
    \/ k \in req[r].stale
    \/ \E q \in Requests \ {r} : InFlight(q) /\ k \in DOMAIN req[q].writes

\* ------------------------------------------------------------- responses
\* except Exception (orders.py:205-234): every exception raised inside the
\* try, the HTTPException of err() included, is answered with HTTP 500
\* order_processing_error; the original error only appears in the details.
ErrorResponse(error_type, inner_status, inner_code) ==
    [status_code |-> 500, success |-> FALSE, code |-> "order_processing_error",
     error_type |-> error_type,
     details |-> [status_code |-> inner_status, code |-> inner_code]]

\* The handler has returned or raised: the session is ended and the
\* per-line scratch values are dead.
Ended(rq, response) ==
    [rq EXCEPT !.pc = "done", !.response = response, !.in_snapshot = FALSE,
               !.snapshot = NoStock, !.stale = {}, !.stock = 0, !.available_qty = 0,
               !.txn_orders = {}]

\* The request ends in the exception handler; its transaction is aborted.
Fail(r, error_type, inner_status, inner_code) ==
    /\ req' = [req EXCEPT ![r] =
                 Ended([@ EXCEPT !.writes = <<>>],
                       ErrorResponse(error_type, inner_status, inner_code))]
    /\ inventory' = AbortIfInTransaction(inventory, req[r].writes, TRUE)

\* ------------------------------------------------------ get_next_order_id
CounterDoc == CHOOSE c \in counters : c.id = "order_id"

MaxOrderId(os) == CHOOSE m \in {o.order_id : o \in os} : \A o \in os : o.order_id <= m

\* a counter that starts at 0 whatever db.orders holds
NewIdFromZero(os) == 0

\* new_id = last_order["order_id"] if last_order else 1   (orders.py:40-45)
NewId(os) == IF os # {} THEN MaxOrderId(os) ELSE 1

\* --------------------------------------------------------------- place_order
\* Index of the first line whose normalized SKU was seen on an earlier line,
\* 0 if there is none (orders.py:97-110).
FirstDuplicateRaw(items) ==
    LET dups == {i \in 1..Len(items) : \E j \in 1..(i - 1) : items[j].sku = items[i].sku}
    IN IF dups = {} THEN 0 ELSE CHOOSE i \in dups : \A j \in dups : i <= j

FirstDuplicate(items) ==
    LET n(i) == NormalizeOrderSku(items[i].sku)
        dups == {i \in 1..Len(items) : \E j \in 1..(i - 1) : n(j) = n(i)}
    IN IF dups = {} THEN 0 ELSE CHOOSE i \in dups : \A j \in dups : i <= j

NormalizedItems(items) ==
    [i \in 1..Len(items) |-> [sku |-> NormalizeOrderSku(items[i].sku), qty |-> items[i].qty]]

\* available_qty = min(item.qty, inventory_item["stock"])   (orders.py:141)
AvailableQtyNoMin(qty, stock) == qty

AvailableQty(qty, stock) == Min(qty, stock)

\* remaining_stock without the decrement
RemainingStockAsRead(stock, available_qty) == stock

\* remaining_stock (orders.py:163)
RemainingStock(stock, available_qty) ==
    IF available_qty > 0 THEN stock - available_qty ELSE 0

\* a line outcome that reports the fulfilled quantity as the requested one
FulfilledItemAsFulfilled(item, stock, available_qty) ==
    LET remaining_stock == RemainingStock(stock, available_qty)
    IN [sku |-> item.sku, requested_qty |-> available_qty, fulfilled_qty |-> available_qty,
        remaining_stock |-> remaining_stock,
        few_left |-> (0 < remaining_stock /\ remaining_stock < 10)]

\* fulfilled_items (orders.py:164-170)
FulfilledItem(item, stock, available_qty) ==
    LET remaining_stock == RemainingStock(stock, available_qty)
    IN [sku |-> item.sku, requested_qty |-> item.qty, fulfilled_qty |-> available_qty,
        remaining_stock |-> remaining_stock,
        few_left |-> (0 < remaining_stock /\ remaining_stock < 10)]

\* fulfilment_status without the partial case
FulfilmentStatusAlwaysFull(partial) == "fully fulfilled"

\* fulfilment_status (orders.py:187)
FulfilmentStatus(partial) == IF partial THEN "partially fulfilled" ELSE "fully fulfilled"

\* an order document with another status
OrderDocPending(r) ==
    [oid |-> r, order_id |-> req[r].order_id, customer_name |-> req[r].customer_name,
     status |-> "pending",
     items |-> [i \in 1..Len(req[r].items) |->
                  [sku |-> req[r].items[i].sku, quantity |-> req[r].items[i].qty]],
     total_items |-> SumQty(req[r].items),
     fulfilment_status |-> FulfilmentStatus(req[r].partial_fulfilment)]

\* order document (orders.py:181-189); oid stands for the generated _id.
OrderDoc(r) ==
    [oid |-> r, order_id |-> req[r].order_id, customer_name |-> req[r].customer_name,
     status |-> "confirmed",
     items |-> [i \in 1..Len(req[r].items) |->
                  [sku |-> req[r].items[i].sku, quantity |-> req[r].items[i].qty]],
     total_items |-> SumQty(req[r].items),
     fulfilment_status |-> FulfilmentStatus(req[r].partial_fulfilment)]

\* response of a committed request (orders.py:195-203)
SuccessResponse(r) ==
    [status_code |-> 200, success |-> TRUE, order_id |-> req[r].order_id,
     status |-> "confirmed",
     fulfilment_status |-> FulfilmentStatus(req[r].partial_fulfilment),
     partial_fulfilment |-> req[r].partial_fulfilment,
     items |-> req[r].fulfilment_items]

\* A request arrives: collection check, then the duplicate-SKU loop.
Start(r, payload) ==
    /\ req[r].pc = "idle"
    \* requests are numbered in the order they arrive
    /\ \A q \in Requests : q < r => req[q].pc # "idle"
    /\ hist' = [q \in Requests |->
                  IF q = r
                  THEN [NoHist EXCEPT
                          !.inv = inventory, !.orders = orders,
                          !.concurrent = {o \in Requests \ {r} : InFlight(o)},
                          !.started_after = {o.order_id : o \in orders}
                              \cup {req[o].order_id : o \in {x \in Requests : req[x].order_id > 0}}]
                  ELSE IF InFlight(q) THEN [hist[q] EXCEPT !.concurrent = @ \cup {r}]
                  ELSE hist[q]]
    /\ IF ~({"inventory", "orders", "counters"} \subseteq Collections)
       THEN /\ req' = [req EXCEPT ![r] =
                        [@ EXCEPT !.pc = "done", !.items = payload.items,
                                  !.customer_name = payload.customer_name,
                                  !.response =
                                      [ErrorResponse("HTTPException", 500, "database_error")
                                         EXCEPT !.code = "database_connection_error"]]]
            /\ UNCHANGED inventory
       ELSE IF FirstDuplicate(payload.items) # 0
       THEN LET d == FirstDuplicate(payload.items)
                \* items before and at the duplicate were normalized in place
                seen == [i \in 1..Len(payload.items) |->
                           IF i <= d THEN NormalizedItems(payload.items)[i]
                           ELSE payload.items[i]]
            IN /\ req' = [req EXCEPT ![r] =
                            [@ EXCEPT !.pc = "done", !.items = seen,
                                      !.customer_name = payload.customer_name,
                                      !.response = ErrorResponse("HTTPException", 400, "duplicate_sku")]]
               /\ UNCHANGED inventory
       ELSE /\ req' = [req EXCEPT ![r] =
                        [@ EXCEPT !.pc = "counter_find",
                                  !.items = NormalizedItems(payload.items),
                                  !.customer_name = payload.customer_name]]
            /\ UNCHANGED inventory
    /\ UNCHANGED <<counters, orders, admin, query>>

\* counter = db.counters.find_one({"_id": "order_id"})   (orders.py:23)
CounterFind(r) ==
    /\ req[r].pc = "counter_find"
    /\ req' = [req EXCEPT ![r].pc =
                 IF \E c \in counters : c.id = "order_id" THEN "counter_inc" ELSE "orders_max"]
    /\ UNCHANGED <<inventory, counters, orders, hist, admin, query>>

\* an update that leaves seq as it is
IncSeqByZero(seq) == seq

\* {"$inc": {"seq": 1}}   (orders.py:29)
IncSeq(seq) == seq + 1

\* find_one_and_update($inc seq by 1, ReturnDocument.AFTER)   (orders.py:27-32)
CounterInc(r) ==
    /\ req[r].pc = "counter_inc"
    /\ LET seq == IncSeq(CounterDoc.seq)
       IN /\ counters' = (counters \ {CounterDoc}) \cup {[id |-> "order_id", seq |-> seq]}
          /\ req' = [req EXCEPT ![r] = [@ EXCEPT !.pc = "line_find", !.order_id = seq, !.idx = 1]]
    /\ UNCHANGED <<inventory, orders, hist, admin, query>>

\* last_order = db.orders.find_one({}, sort=[("order_id", -1)])   (orders.py:35-45)
OrdersMax(r) ==
    /\ req[r].pc = "orders_max"
    /\ req' = [req EXCEPT ![r] = [@ EXCEPT !.pc = "counter_insert", !.new_id = NewId(orders)]]
    /\ hist' = [hist EXCEPT ![r].scanned = {o.order_id : o \in orders}]
    /\ UNCHANGED <<inventory, counters, orders, admin, query>>

\* db.counters.insert_one({"_id": "order_id", "seq": new_id})   (orders.py:48-53)
\* _id is unique: inserting a second "order_id" document raises DuplicateKeyError.
CounterInsert(r) ==
    /\ req[r].pc = "counter_insert"
    /\ IF \E c \in counters : c.id = "order_id"
       THEN /\ Fail(r, "DuplicateKeyError", 0, "duplicate key")
            /\ UNCHANGED counters
       ELSE /\ counters' = counters \cup {[id |-> "order_id", seq |-> req[r].new_id]}
            /\ req' = [req EXCEPT ![r] =
                         [@ EXCEPT !.pc = "line_find", !.order_id = req[r].new_id, !.idx = 1]]
            /\ UNCHANGED inventory
    /\ UNCHANGED <<orders, hist, admin, query>>

\* a loop that does not move on to the next line
AfterLineStuck(rq, available_qty) == [rq EXCEPT !.pc = "line_find"]

\* The locals after line idx got available_qty (orders.py:158-178), and the
\* position of the next database call.
AfterLine(rq, available_qty) ==
    LET item == rq.items[rq.idx]
        last == rq.idx = Len(rq.items)
    IN [rq EXCEPT
          !.partial_fulfilment = @ \/ available_qty < item.qty,
          !.fulfilled_total = IF available_qty > 0 THEN @ + available_qty ELSE @,
          !.fulfilment_items = Append(@, FulfilledItem(item, rq.stock, available_qty)),
          !.available_qty = available_qty,
          !.idx = IF last THEN @ ELSE @ + 1,
          !.pc = IF last THEN "insert" ELSE "line_find"]

\* inventory_item = db.inventory.find_one({"sku": item.sku}, session=session)
\* (orders.py:124-143,155-156).  The first operation of the transaction takes
\* its snapshot.
LineFind(r) ==
    /\ req[r].pc = "line_find"
    /\ LET rq == [req[r] EXCEPT
                    !.snapshot = IF req[r].in_snapshot THEN @ ELSE inventory,
                    !.in_snapshot = TRUE]
           view == [k \in Skus |-> IF k \in DOMAIN rq.writes THEN rq.writes[k]
                                   ELSE rq.snapshot[k]]
           item == rq.items[rq.idx]
       IN IF item.sku \notin Skus
          THEN \* session.abort_transaction(); err(invalid_sku, 400); the
               \* exception handler then finds no transaction in progress
               /\ req' = [req EXCEPT ![r] =
                            Ended([rq EXCEPT !.writes = <<>>],
                                  ErrorResponse("HTTPException", 400, "invalid_sku"))]
               /\ inventory' = AbortIfInTransaction(TxnOnAbort(inventory, rq.writes),
                                                    <<>>, FALSE)
          ELSE LET stock == view[item.sku]
                   available_qty == AvailableQty(item.qty, stock)
               IN /\ req' = [req EXCEPT ![r] =
                               IF available_qty > 0
                               THEN [rq EXCEPT !.stock = stock, !.available_qty = available_qty,
                                               !.pc = "line_update"]
                               ELSE AfterLine([rq EXCEPT !.stock = stock], 0)]
                  /\ UNCHANGED inventory
    /\ hist' = [hist EXCEPT ![r].touched = TRUE]
    /\ UNCHANGED <<counters, orders, admin, query>>

\* result = db.inventory.find_one_and_update({"sku", "stock" >= 1},
\*              {"$inc": {"stock": -available_qty}}, session=session)
\* (orders.py:145-154)
LineUpdate(r) ==
    /\ req[r].pc = "line_update"
    /\ LET rq == req[r]
           item == rq.items[rq.idx]
           current == TxnView(r)[item.sku]
       IN IF WriteConflict(r, item.sku)
          THEN Fail(r, "OperationFailure", 0, "WriteConflict")
          ELSE /\ IF current >= 1
                  THEN req' = [req EXCEPT ![r] =
                                 AfterLine([rq EXCEPT !.writes =
                                              (item.sku :> (current - rq.available_qty)) @@ @],
                                           rq.available_qty)]
                  ELSE req' = [req EXCEPT ![r] = AfterLine(rq, 0)]
               /\ UNCHANGED inventory
    /\ UNCHANGED <<counters, orders, hist, admin, query>>

\* db.orders.insert_one(order, session=session)   (orders.py:181-191).  The
\* insert may fail in the storage layer.
InsertOrder(r) ==
    /\ req[r].pc = "insert"
    /\ \/ /\ req' = [req EXCEPT ![r] = [@ EXCEPT !.pc = "commit", !.txn_orders = {OrderDoc(r)}]]
          /\ UNCHANGED inventory
       \/ Fail(r, "PyMongoError", 0, "storage failure")
    /\ UNCHANGED <<counters, orders, hist, admin, query>>

\* return {...} leaves both with-blocks: the transaction commits
\* (orders.py:195-203).
Commit(r) ==
    /\ req[r].pc = "commit"
    /\ inventory' = TxnOnCommit(inventory, req[r].writes)
    /\ orders' = orders \cup req[r].txn_orders
    /\ req' = [q \in Requests |->
                 IF q = r THEN Ended(req[r], SuccessResponse(r))
                 ELSE IF InFlight(q) /\ req[q].in_snapshot
                 THEN [req[q] EXCEPT !.stale = @ \cup DOMAIN req[r].writes]
                 ELSE req[q]]
    /\ hist' = [q \in Requests |->
                  IF q # r /\ req[q].pc # "idle" THEN [hist[q] EXCEPT !.undisturbed = FALSE]
                  ELSE hist[q]]
    /\ UNCHANGED <<counters, admin, query>>

\* ------------------------------------------------------------- update_stock
\* schemas.StockUpdate (schemas.py:23-24): the body has the one field stock.
StockUpdate(v) == [stock |-> v]

\* stock: conint(ge=0)   (schemas.py:24)
StockUpdateValidAny(v) == TRUE

StockUpdateValid(v) == v >= 0

\* stock_flags with the few_left range closed at 10
stock_flagsUpTo10(stock) ==
    LET s == IF stock > 0 THEN stock ELSE 0
    IN [few_left |-> (s > 0 /\ s <= 10),
        out_of_stock |-> (s = 0),
        status |-> IF s = 0 THEN "out_of_stock" ELSE IF s <= 10 THEN "few_left" ELSE "available",
        stock |-> s]

\* stock_flags (inventory.py:24-36)
stock_flags(stock) ==
    LET s == IF stock > 0 THEN stock ELSE 0
    IN [few_left |-> (s > 0 /\ s < 10),
        out_of_stock |-> (s = 0),
        status |-> IF s = 0 THEN "out_of_stock" ELSE IF s < 10 THEN "few_left" ELSE "available",
        stock |-> s]

\* list_inventory, get_item
\* The returned item: {"sku", "name", **flags} filtered by the response model
\* schemas.InventoryPublic (schemas.py:27-32); names are not modelled.
InventoryPublic(sku, stock) ==
    [sku |-> sku, stock |-> stock_flags(stock).stock,
     status |-> stock_flags(stock).status, few_left |-> stock_flags(stock).few_left]

\* list_inventory (inventory.py:43-70); the order of the list is the store's.
list_inventory ==
    /\ query' = [status_code |-> 200,
                 items |-> {InventoryPublic(k, inventory[k]) : k \in DOMAIN inventory}]
    /\ UNCHANGED <<inventory, counters, orders, req, hist, admin>>

\* get_item (inventory.py:77-107)
get_item(raw) ==
    LET sku == normalize_sku(raw)
    IN /\ IF sku \notin DOMAIN inventory
          THEN query' = [status_code |-> 404, code |-> "sku_not_found", sku |-> sku]
          ELSE query' = [status_code |-> 200, item |-> InventoryPublic(sku, inventory[sku])]
       /\ UNCHANGED <<inventory, counters, orders, req, hist, admin>>

\* PATCH /inventory/{sku}   (inventory.py:114-179 and schemas.py:23-24)
update_stock(raw, v) ==
    LET payload == StockUpdate(v)
        sku == normalize_sku(raw)
    IN /\ IF ~StockUpdateValid(v)
          THEN \* conint(ge=0): rejected by request validation (main.py:75-88)
               /\ admin' = [status_code |-> 422, code |-> "validation_error"]
               /\ UNCHANGED <<inventory, hist, req>>
          ELSE IF "delta" \notin DOMAIN payload
          THEN \* payload.delta (inventory.py:122): StockUpdate has no such
               \* attribute; AttributeError, answered as an internal error
               /\ admin' = [status_code |-> 500, code |-> "AttributeError"]
               /\ UNCHANGED <<inventory, hist, req>>
          ELSE IF payload.delta < 0
          THEN /\ admin' = [status_code |-> 422, code |-> "invalid_stock_value"]
               /\ UNCHANGED <<inventory, hist, req>>
          ELSE IF sku \notin Skus
          THEN /\ admin' = [status_code |-> 404, code |-> "sku_not_found"]
               /\ UNCHANGED <<inventory, hist, req>>
          ELSE /\ inventory' = [inventory EXCEPT ![sku] = @ + payload.delta]
               /\ admin' = [status_code |-> 200, code |-> "ok", sku |-> sku,
                             item |-> InventoryPublic(sku, inventory[sku] + payload.delta)]
               /\ hist' = [q \in Requests |->
                             IF req[q].pc # "idle" THEN [hist[q] EXCEPT !.undisturbed = FALSE]
                             ELSE hist[q]]
               \* update_one runs outside any session: open transactions
               \* that hold a snapshot conflict on a later write of the SKU
               /\ req' = [q \in Requests |->
                            IF InFlight(q) /\ req[q].in_snapshot
                            THEN [req[q] EXCEPT !.stale = @ \cup {sku}]
                            ELSE req[q]]
       /\ UNCHANGED <<counters, orders, query>>

\* ---------------------------------------------------------------- get_order
\* order.get("status", "").upper()  (orders.py:261)
StatusUpper(status) ==
    CASE status = "confirmed" -> "CONFIRMED"
      [] status = "pending" -> "PENDING"
      [] status = "rejected" -> "REJECTED"
      [] OTHER -> status

\* the returned dict (orders.py:263-269)
OrderDetail(order) ==
    [status_code |-> 200, id |-> order.order_id, customer_name |-> order.customer_name,
     status |-> StatusUpper(order.status), total_items |-> order.total_items,
     items |-> order.items]

\* find_one without the filter on order_id
FindOrderNoFilter(order_id) == orders

\* the documents db.orders.find_one({"order_id": order_id}) may return
\* (orders.py:246)
FindOrder(order_id) == {o \in orders : o.order_id = order_id}

\* get_order (orders.py:239-269).  find_one returns one of the documents that
\* carry the id; which one, when several do, is left to the store.
get_order(order_id) ==
    /\ IF FindOrder(order_id) = {}
       THEN query' = [status_code |-> 404, code |-> "order_not_found", order_id |-> order_id]
       ELSE \E order \in FindOrder(order_id) : query' = OrderDetail(order)
    /\ UNCHANGED <<inventory, counters, orders, req, hist, admin>>

\* ------------------------------------------------------------ specification
Next ==
    \/ \E r \in Requests, payload \in OrderCreate : Start(r, payload)
    \/ \E r \in Requests : CounterFind(r)
    \/ \E r \in Requests : CounterInc(r)
    \/ \E r \in Requests : OrdersMax(r)
    \/ \E r \in Requests : CounterInsert(r)
    \/ \E r \in Requests : LineFind(r)
    \/ \E r \in Requests : LineUpdate(r)
    \/ \E r \in Requests : InsertOrder(r)
    \/ \E r \in Requests : Commit(r)
    \/ \E raw \in AdminSkus, v \in {-1, 0, MaxQty} : update_stock(raw, v)

Spec == Init /\ [][Next]_vars

\* A seeded inventory with a SKU above the few_left threshold (main.py:108-276).
SeedStockWide == (<<"A">> :> 11) @@ (<<"B">> :> 1)

InitWide ==
    /\ inventory = SeedStockWide
    /\ counters = {}
    /\ orders \in {{}, {PriorOrder}}
    /\ req = [r \in Requests |-> Idle]
    /\ hist = [r \in Requests |-> NoHist]
    /\ admin = NoResponse
    /\ query = NoResponse

\* The same requests against the inventory seeded with SeedStockWide.
SpecWide == InitWide /\ [][Next]_vars

\* The orders placed while get_order requests run: one or two lines, the
\* first for SKU B.
QueryOrders == {payload \in OrderCreate : payload.items[1].sku = <<"B">>}

\* place_order, update_stock and get_order requests in any interleaving.
NextQuery ==
    \/ \E r \in Requests, payload \in QueryOrders : Start(r, payload)
    \/ \E r \in Requests : CounterFind(r)
    \/ \E r \in Requests : CounterInc(r)
    \/ \E r \in Requests : OrdersMax(r)
    \/ \E r \in Requests : CounterInsert(r)
    \/ \E r \in Requests : LineFind(r)
    \/ \E r \in Requests : LineUpdate(r)
    \/ \E r \in Requests : InsertOrder(r)
    \/ \E r \in Requests : Commit(r)
    \/ \E raw \in AdminSkus, v \in {-1, 0, MaxQty} : update_stock(raw, v)
    \/ \E order_id \in 1..NumRequests + 1 : get_order(order_id)

SpecQuery == Init /\ [][NextQuery]_vars

\* Stock levels on both sides of the thresholds of stock_flags.
StockLevels == {0, 1, 9, 10, 11}

InitInventory ==
    /\ inventory \in [Skus -> StockLevels]
    /\ counters = {}
    /\ orders = {}
    /\ req = [r \in Requests |-> Idle]
    /\ hist = [r \in Requests |-> NoHist]
    /\ admin = NoResponse
    /\ query = NoResponse

\* The requests of the inventory router against any stored stock.
NextInventory ==
    \/ list_inventory
    \/ \E raw \in AdminSkus : get_item(raw)
    \/ \E raw \in AdminSkus, v \in {-1, 0, MaxQty} : update_stock(raw, v)

SpecInventory == InitInventory /\ [][NextInventory]_vars

\* Two-line orders that name both stored SKUs, in either line order.
TwoSkuOrders ==
    {payload \in OrderCreate :
        /\ Len(payload.items) = 2
        /\ {payload.items[1].sku, payload.items[2].sku} = Skus}

\* The next step of the handler that runs request r.
Step(r) ==
    \/ CounterFind(r)
    \/ CounterInc(r)
    \/ OrdersMax(r)
    \/ CounterInsert(r)
    \/ LineFind(r)
    \/ LineUpdate(r)
    \/ InsertOrder(r)
    \/ Commit(r)

NextLive ==
    \/ \E r \in Requests, payload \in TwoSkuOrders : Start(r, payload)
    \/ \E r \in Requests : CounterFind(r)
    \/ \E r \in Requests : CounterInc(r)
    \/ \E r \in Requests : OrdersMax(r)
    \/ \E r \in Requests : CounterInsert(r)
    \/ \E r \in Requests : LineFind(r)
    \/ \E r \in Requests : LineUpdate(r)
    \/ \E r \in Requests : InsertOrder(r)
    \/ \E r \in Requests : Commit(r)

\* Each handler runs in a thread of its own and is scheduled fairly: a
\* request whose next step stays possible takes it.
SpecLive == Init /\ [][NextLive]_vars /\ \A r \in Requests : WF_vars(Step(r))

TypeOK ==
    /\ inventory \in [Skus -> Int]
    /\ \A r \in Requests : req[r].idx \in 0..MaxLines

\* ------------------------------------------------------------- properties
Done(r) == req[r].pc = "done"

\* The request committed and was answered with HTTP 200.
Committed(r) == Done(r) /\ req[r].response.status_code = 200

\* The error the handler raised inside its try block, "none" if it raised none.
Raised(r) ==
    IF Done(r) /\ req[r].response.status_code = 500
    THEN req[r].response.details.code ELSE "none"

\* fulfilled_qty the response of a committed request reports for SKU k.
RECURSIVE FulfilledOf(_, _)
FulfilledOf(outcomes, k) ==
    IF outcomes = <<>> THEN 0
    ELSE (IF Head(outcomes).sku = k THEN Head(outcomes).fulfilled_qty ELSE 0)
             + FulfilledOf(Tail(outcomes), k)

\* C1: in every reachable state the stored stock of every SKU is >= 0.
C1_StockNeverNegative == \A k \in Skus : inventory[k] >= 0

\* C1 witness: two overlapping place_order requests have run, one of them
\* committed, an update_stock request was answered, and a SKU is sold out.
C1_Witness ==
    /\ \E r \in Requests : Committed(r) /\ hist[r].concurrent # {}
    /\ admin.status_code = 500
    /\ \E k \in Skus : inventory[k] = 0

\* C2: two place_order requests that ran concurrently and both reserved SKU k
\* were together fulfilled at most the stock k held before either of them ran.
C2_ConcurrentReservationsBounded ==
    \A p \in Requests, q \in Requests :
        (p < q /\ Committed(p) /\ Committed(q) /\ q \in hist[p].concurrent)
            => \A k \in Skus :
                   FulfilledOf(req[p].response.items, k)
                       + FulfilledOf(req[q].response.items, k) <= hist[p].inv[k]

\* C2 witness: two concurrent requests both committed a reservation of the
\* same SKU and together took all of its stock.
C2_Witness ==
    \E p \in Requests, q \in Requests :
        /\ p < q /\ Committed(p) /\ Committed(q) /\ q \in hist[p].concurrent
        /\ \E k \in Skus :
               /\ FulfilledOf(req[p].response.items, k) > 0
               /\ FulfilledOf(req[q].response.items, k) > 0
               /\ FulfilledOf(req[p].response.items, k)
                      + FulfilledOf(req[q].response.items, k) = hist[p].inv[k]

\* C3 (as claimed): the order ids returned by committed requests that ran
\* concurrently are pairwise distinct and each is greater than every order id
\* assigned before the request started.
C3_OrderIdsDistinctAndIncreasing ==
    \A p \in Requests :
        (Committed(p) /\ hist[p].concurrent # {}) =>
            /\ \A q \in Requests \ {p} :
                   Committed(q) => req[q].response.order_id # req[p].response.order_id
            /\ \A i \in hist[p].started_after : req[p].response.order_id > i

\* C4 (as claimed): the id get_next_order_id returns when it finds no counter
\* record but persisted orders is greater than the order_id of every persisted
\* order, and every later call returns a greater value still.
C4_FirstIdAboveEveryPersistedId ==
    \A r \in Requests :
        (req[r].order_id > 0 /\ req[r].new_id > 0 /\ hist[r].scanned # {})
            => /\ \A i \in hist[r].scanned : req[r].order_id > i
               /\ \A q \in Requests \ {r} :
                      (req[q].order_id > 0 /\ req[q].new_id = 0)
                          => req[q].order_id > req[r].order_id

\* C5: once a request whose earlier lines were reserved has been rejected for
\* an unknown SKU on a later line, and nobody else has committed since it
\* arrived, every SKU of the earlier lines has the stock it had on arrival.
C5_RejectedRequestRestoresStock ==
    \A r \in Requests :
        (Raised(r) = "invalid_sku" /\ req[r].fulfilment_items # <<>> /\ hist[r].undisturbed)
            => \A i \in 1..Len(req[r].fulfilment_items) :
                   inventory[req[r].fulfilment_items[i].sku]
                       = hist[r].inv[req[r].fulfilment_items[i].sku]

\* C5 witness: a request reserved stock on its first line and was then
\* rejected for the unknown SKU of its second line.
C5_Witness ==
    \E r \in Requests :
        /\ Raised(r) = "invalid_sku" /\ hist[r].undisturbed
        /\ Len(req[r].fulfilment_items) = 1
        /\ req[r].fulfilment_items[1].fulfilled_qty > 0

\* C6 (as claimed): a request that names an unknown SKU is answered with
\* HTTP 400 and code invalid_sku.
C6_InvalidSkuAnswered400 ==
    \A r \in Requests :
        Raised(r) = "invalid_sku"
            => req[r].response.status_code = 400 /\ req[r].response.code = "invalid_sku"

\* C7: a request rejected for an unknown SKU persists no order record, and
\* while nobody else has committed since it arrived the orders collection and
\* the stock of every SKU are as they were on its arrival.
C7_InvalidSkuChangesNothing ==
    \A r \in Requests :
        Raised(r) = "invalid_sku"
            => /\ \A o \in orders : o.oid # r
               /\ hist[r].undisturbed => (inventory = hist[r].inv /\ orders = hist[r].orders)

\* C7 witness: a rejected request with an unknown SKU, with and without
\* lines processed before it.
C7_Witness ==
    /\ \E r \in Requests :
           Raised(r) = "invalid_sku" /\ hist[r].undisturbed /\ req[r].fulfilment_items = <<>>
    /\ \E r \in Requests :
           Raised(r) = "invalid_sku" /\ hist[r].undisturbed /\ req[r].fulfilment_items # <<>>

\* Two lines of the request have the same SKU after normalization.
HasDuplicateSku(items) ==
    \E i \in 1..Len(items), j \in 1..Len(items) :
        i < j /\ NormalizeOrderSku(items[i].sku) = NormalizeOrderSku(items[j].sku)

\* C8 (as claimed): a request with a duplicate SKU is answered with HTTP 400
\* and code duplicate_sku.
C8_DuplicateSkuAnswered400 ==
    \A r \in Requests :
        (Done(r) /\ HasDuplicateSku(req[r].items))
            => req[r].response.status_code = 400 /\ req[r].response.code = "duplicate_sku"

\* C9: a request with a duplicate SKU ends without having read or written
\* stock and without an order record; while nobody else has committed since it
\* arrived, the stock of every SKU and the orders collection are unchanged.
C9_DuplicateCheckBeforeStock ==
    \A r \in Requests :
        (Done(r) /\ HasDuplicateSku(req[r].items))
            => /\ ~hist[r].touched
               /\ DOMAIN req[r].writes = {}
               /\ \A o \in orders : o.oid # r
               /\ hist[r].undisturbed => (inventory = hist[r].inv /\ orders = hist[r].orders)

\* C9 witness: a request with two lines for the same stored SKU was rejected
\* by the duplicate check while the other request had a transaction open.
C9_Witness ==
    \E r \in Requests :
        /\ Raised(r) = "duplicate_sku" /\ HasDuplicateSku(req[r].items)
        /\ req[r].items[1].sku \in Skus
        /\ \E q \in Requests \ {r} : req[q].in_snapshot

AllSkusExist(items) ==
    /\ ~HasDuplicateSku(items)
    /\ \A i \in 1..Len(items) : NormalizeOrderSku(items[i].sku) \in Skus

\* A database operation of the request failed: a write conflict with a
\* concurrent transaction, a duplicate key on creating the counter, or the
\* insert of the order.
StorageFailed(r) == Raised(r) \in {"WriteConflict", "duplicate key", "storage failure"}

\* Line outcome i of a committed request is short of the requested quantity.
ShortLine(r, i) ==
    req[r].response.items[i].fulfilled_qty < req[r].response.items[i].requested_qty

\* The request committed as Scenario B describes: a confirmed order is
\* persisted, every short line got the stock that was available and reports
\* remaining_stock 0, and a short line makes the response partial.
CommittedWithShortLines(r) ==
    /\ Committed(r)
    /\ \E o \in orders : o.oid = r /\ o.status = "confirmed"
    /\ req[r].response.status = "confirmed"
    /\ \A i \in 1..Len(req[r].response.items) :
           ShortLine(r, i) =>
               /\ req[r].response.items[i].remaining_stock = 0
               /\ hist[r].undisturbed =>
                      /\ req[r].response.items[i].fulfilled_qty
                             = hist[r].inv[req[r].response.items[i].sku]
                      /\ inventory[req[r].response.items[i].sku] = 0
               /\ req[r].response.partial_fulfilment
               /\ req[r].response.fulfilment_status = "partially fulfilled"

AskedMoreThanStock(r) ==
    /\ hist[r].undisturbed
    /\ \E i \in 1..Len(req[r].items) :
           /\ req[r].items[i].sku \in Skus
           /\ req[r].items[i].qty > hist[r].inv[req[r].items[i].sku]

\* C12 (as claimed): a request for an existing SKU whose requested quantity
\* exceeds the available stock, and which no database failure stopped, is
\* rejected with HTTP 400.
C12_OutOfStockAnswered400 ==
    \A r \in Requests :
        (Done(r) /\ AllSkusExist(req[r].items) /\ ~StorageFailed(r) /\ AskedMoreThanStock(r))
            => req[r].response.status_code = 400

\* C13: a request whose order insert failed after its lines were reserved is
\* answered with a 500 error, no order record of it exists, and while nobody
\* else has committed since it arrived every SKU it reserved has the stock it
\* had on arrival.
C13_InsertFailureRollsBack ==
    \A r \in Requests :
        Raised(r) = "storage failure"
            => /\ req[r].response.status_code = 500
               /\ req[r].response.code = "order_processing_error"
               /\ \A o \in orders : o.oid # r
               /\ hist[r].undisturbed =>
                      \A i \in 1..Len(req[r].fulfilment_items) :
                          inventory[req[r].fulfilment_items[i].sku]
                              = hist[r].inv[req[r].fulfilment_items[i].sku]

\* C13 witness: the insert failed for a request that had reserved stock on
\* both of its lines.
C13_Witness ==
    \E r \in Requests :
        /\ Raised(r) = "storage failure" /\ hist[r].undisturbed
        /\ Len(req[r].fulfilment_items) = 2
        /\ \A i \in 1..2 : req[r].fulfilment_items[i].fulfilled_qty > 0

\* The order record the committed request r persisted.
PersistedOrder(r) == CHOOSE o \in orders : o.oid = r

RECURSIVE SumFulfilled(_)
\* Sum of the fulfilled quantities of a sequence of line outcomes.
SumFulfilled(outcomes) ==
    IF outcomes = <<>> THEN 0
    ELSE Head(outcomes).fulfilled_qty + SumFulfilled(Tail(outcomes))

\* C14 (as claimed): the total_items of every order a request persisted is the
\* sum of the fulfilled quantities of its lines, also when it is partial.
C14_TotalItemsIsSumOfFulfilled ==
    \A r \in Requests :
        Committed(r) => PersistedOrder(r).total_items = SumFulfilled(req[r].response.items)

\* C15 (as claimed): every order a request persisted stores, line by line in
\* request order, the SKU of the line with its fulfilled quantity.
C15_StoredQuantityIsFulfilled ==
    \A r \in Requests :
        Committed(r) =>
            /\ Len(PersistedOrder(r).items) = Len(req[r].response.items)
            /\ \A i \in 1..Len(req[r].response.items) :
                   /\ PersistedOrder(r).items[i].sku = req[r].response.items[i].sku
                   /\ PersistedOrder(r).items[i].quantity
                          = req[r].response.items[i].fulfilled_qty

\* C16: every line outcome of a committed place_order has
\* 0 <= fulfilled_qty <= requested_qty and remaining_stock >= 0, whatever
\* other requests ran at the same time.
C16_LineOutcomeWithinBounds ==
    \A r \in Requests :
        Committed(r) =>
            \A i \in 1..Len(req[r].response.items) :
                /\ 0 <= req[r].response.items[i].fulfilled_qty
                /\ req[r].response.items[i].fulfilled_qty
                       <= req[r].response.items[i].requested_qty
                /\ req[r].response.items[i].requested_qty = req[r].items[i].qty
                /\ req[r].response.items[i].remaining_stock >= 0

\* C16 witness: two requests that ran concurrently both committed, one with a
\* line fulfilled in full and one with a line that got nothing.
C16_Witness ==
    \E p \in Requests, q \in Requests :
        /\ p # q /\ Committed(p) /\ Committed(q) /\ q \in hist[p].concurrent
        /\ \E i \in 1..Len(req[p].response.items) :
               /\ req[p].response.items[i].fulfilled_qty = req[p].response.items[i].requested_qty
        /\ \E i \in 1..Len(req[q].response.items) :
               req[q].response.items[i].fulfilled_qty = 0

\* The step that commits request r and answers it.
CommitStep(r) == req[r].pc = "commit" /\ req'[r].pc = "done"

\* C17: when a request's reservations take effect, the remaining_stock of
\* each of its line outcomes is the stock then stored for the SKU, also when
\* another request changed that SKU while this one ran, and few_left is true
\* exactly when 0 < remaining_stock < 10.
C17_RemainingStockIsStoredStock ==
    [][\A r \in Requests :
           CommitStep(r) =>
               \A i \in 1..Len(req'[r].response.items) :
                   LET out == req'[r].response.items[i]
                   IN /\ out.remaining_stock = inventory'[out.sku]
                      /\ out.few_left = (0 < inventory'[out.sku] /\ inventory'[out.sku] < 10)]_vars

\* C17 witness: a request committed after a concurrent request had changed the
\* stock of its SKU; one outcome reports remaining_stock 10 without few_left,
\* one reports 9 with few_left, one reports 0 without few_left.
C17_Witness ==
    /\ \E p \in Requests, q \in Requests :
           /\ p # q /\ Committed(p) /\ Committed(q) /\ q \in hist[p].concurrent
           /\ \E i \in 1..Len(req[p].response.items), j \in 1..Len(req[q].response.items) :
                  /\ req[p].response.items[i].sku = req[q].response.items[j].sku
                  /\ req[p].response.items[i].remaining_stock = 10
                  /\ ~req[p].response.items[i].few_left
                  /\ req[q].response.items[j].remaining_stock = 9
                  /\ req[q].response.items[j].few_left
    /\ \E r \in Requests :
           /\ Committed(r)
           /\ \E i \in 1..Len(req[r].response.items) :
                  /\ req[r].response.items[i].remaining_stock = 0
                  /\ ~req[r].response.items[i].few_left

\* C18 (as claimed): an update_stock request for an existing SKU with a stock
\* value >= 0 succeeds; afterwards the stored stock of the SKU is that value,
\* and the returned item reports it.
C18_UpdateStockOverwrites ==
    [][\A raw \in AdminSkus, v \in {0, MaxQty} :
           (update_stock(raw, v) /\ normalize_sku(raw) \in Skus)
               => /\ admin'.status_code = 200
                  /\ inventory'[normalize_sku(raw)] = v
                  /\ admin'.item.stock = v]_vars

\* C19 (as claimed): an update_stock request with a negative stock value is
\* rejected with HTTP 422 and code invalid_stock_value, and leaves the stock
\* of every SKU unchanged.
C19_NegativeStockInvalidStockValue ==
    [][\A raw \in AdminSkus :
           update_stock(raw, -1)
               => /\ admin'.status_code = 422
                  /\ admin'.code = "invalid_stock_value"
                  /\ inventory' = inventory]_vars

\* C19 (amended): an update_stock request with a negative stock value is
\* rejected by the validation of the request body with HTTP 422 and code
\* validation_error, and leaves the stock of every SKU unchanged.
C19_NegativeStockRejected422 ==
    [][\A raw \in AdminSkus :
           update_stock(raw, -1)
               => /\ admin'.status_code = 422
                  /\ admin'.code = "validation_error"
                  /\ inventory' = inventory]_vars

\* C19 witness: a negative stock value was rejected while a place_order
\* request held a reservation that was not yet committed.
C19_Witness ==
    /\ admin.status_code = 422
    /\ \E r \in Requests : InFlight(r) /\ DOMAIN req[r].writes # {}

\* C20 (as claimed): an update_stock request for a SKU that is not in the
\* inventory is rejected with HTTP 404 and code sku_not_found, creates no
\* item and changes no stock.
C20_UnknownSkuAnswered404 ==
    [][\A raw \in AdminSkus, v \in {0, MaxQty} :
           (update_stock(raw, v) /\ normalize_sku(raw) \notin Skus)
               => /\ admin'.status_code = 404
                  /\ admin'.code = "sku_not_found"
                  /\ inventory' = inventory]_vars

\* C21: in every reachable state a get_order request for an order id that no
\* persisted order carries is answered with HTTP 404 and code order_not_found.
C21_UnknownOrderAnswered404 ==
    [][\A order_id \in 1..NumRequests + 1 :
           (get_order(order_id) /\ \A o \in orders : o.order_id # order_id)
               => /\ query'.status_code = 404
                  /\ query'.code = "order_not_found"
                  /\ query'.order_id = order_id]_vars

\* C21 witness: a get_order request was answered 404 while a committed order
\* with another id was persisted.
C21_Witness ==
    /\ query.status_code = 404
    /\ \E r \in Requests :
           Committed(r) /\ req[r].response.order_id # query.order_id
    /\ \A o \in orders : o.order_id # query.order_id

\* C22 (as claimed): once place_order has committed and returned order_id k,
\* get_order(k) succeeds and returns id k with the customer_name, status,
\* total_items and items of the record persisted for that request, the status
\* being pending, confirmed or rejected exactly as persisted.
C22_GetOrderReturnsPersistedRecord ==
    [][\A r \in Requests :
           (Committed(r) /\ get_order(req[r].response.order_id))
               => /\ query'.status_code = 200
                  /\ query'.id = req[r].response.order_id
                  /\ query'.customer_name = PersistedOrder(r).customer_name
                  /\ query'.status = PersistedOrder(r).status
                  /\ query'.status \in {"pending", "confirmed", "rejected"}
                  /\ query'.total_items = PersistedOrder(r).total_items
                  /\ query'.items = PersistedOrder(r).items]_vars

\* C23: every committed place_order request has persisted exactly one order
\* record, with status confirmed and the order_id returned to the caller, no
\* other request has persisted one, and no step changes or removes a
\* persisted record.
C23_OneImmutableRecordPerCommit ==
    [][/\ \A o \in orders : o \in orders'
       /\ \A r \in Requests :
              LET records == {o \in orders' : o.oid = r}
              IN IF req'[r].pc = "done" /\ req'[r].response.status_code = 200
                 THEN /\ Cardinality(records) = 1
                      /\ \A o \in records :
                             /\ o.status = "confirmed"
                             /\ o.order_id = req'[r].response.order_id
                 ELSE records = {}]_vars

\* C23 witness: both requests have committed, and get_order and update_stock
\* requests were answered afterwards with both records still persisted.
C23_Witness ==
    /\ \A r \in Requests : Committed(r) /\ PersistedOrder(r).oid = r
    /\ query.status_code = 200
    /\ admin.status_code = 500

\* get_next_order_id handed an order id to request r.
HandedId(r) == req[r].order_id > 0

\* C24: an order id handed to a request that was then rejected or rolled back
\* is handed to no other request and is persisted by no other request.
C24_RolledBackIdNeverReused ==
    \A p \in Requests :
        (Done(p) /\ ~Committed(p) /\ HandedId(p)) =>
            \A q \in Requests \ {p} :
                /\ HandedId(q) => req[q].order_id # req[p].order_id
                /\ \A o \in orders : o.oid = q => o.order_id # req[p].order_id

\* C24 witness: a request was handed an id and then rejected, and a request
\* that got its id later committed.
C24_Witness ==
    \E p \in Requests, q \in Requests :
        /\ Done(p) /\ ~Committed(p) /\ HandedId(p)
        /\ Committed(q) /\ req[q].response.order_id > req[p].order_id

\* Request r is reading or reserving its lines, or persisting its order.
AtLines(r) == req[r].pc \in {"line_find", "line_update", "insert", "commit"}

\* C25 (as claimed): a request holds an order id only once every one of its
\* lines has been reserved, and a request rejected for a duplicate or an
\* unknown SKU has not advanced the order-id counter.
C25_IdTakenAfterAllLines ==
    \A r \in Requests :
        /\ HandedId(r) => Len(req[r].fulfilment_items) = Len(req[r].items)
        /\ Raised(r) \in {"duplicate_sku", "invalid_sku"} => ~HandedId(r)

\* C25 (amended): a request takes its order id once, before it reads the
\* stock of its first line; taking the id advances the order-id counter and
\* nothing else does; a request rejected for a duplicate SKU has not taken an
\* id, a request rejected for an unknown SKU has.
C25_IdTakenOnceBeforeLines ==
    [][/\ \A r \in Requests :
              /\ HandedId(r) => req'[r].order_id = req[r].order_id
              /\ (~HandedId(r) /\ req'[r].order_id > 0) =>
                     /\ counters' # counters
                     /\ ~hist[r].touched /\ req[r].fulfilment_items = <<>>
              /\ AtLines(r)' => req'[r].order_id > 0
              /\ Raised(r)' = "duplicate_sku" => req'[r].order_id = 0
              /\ Raised(r)' = "invalid_sku" => req'[r].order_id > 0
       /\ counters' # counters =>
              \E r \in Requests : ~HandedId(r) /\ req'[r].order_id > 0]_vars

\* C25 witness: one request was rejected for a duplicate SKU without an id,
\* another was rejected for an unknown SKU after the counter had advanced
\* for it.
C25_Witness ==
    \E p \in Requests, q \in Requests :
        /\ Raised(p) = "duplicate_sku" /\ ~HandedId(p)
        /\ Raised(q) = "invalid_sku" /\ HandedId(q)
        /\ \E c \in counters : c.seq >= req[q].order_id

\* Every line outcome of the committed request r is fulfilled in full.
AllLinesFull(r) == \A i \in 1..Len(req[r].response.items) : ~ShortLine(r, i)

\* C26: the fulfilment_status of a committed order, persisted and returned, is
\* fully fulfilled exactly when every line has fulfilled_qty = requested_qty
\* and partially fulfilled otherwise; partial_fulfilment is true exactly in
\* the second case, and the status of the response is confirmed.
C26_FulfilmentStatusMatchesLines ==
    \A r \in Requests :
        Committed(r) =>
            /\ req[r].response.fulfilment_status
                   = (IF AllLinesFull(r) THEN "fully fulfilled" ELSE "partially fulfilled")
            /\ PersistedOrder(r).fulfilment_status = req[r].response.fulfilment_status
            /\ req[r].response.partial_fulfilment = ~AllLinesFull(r)
            /\ req[r].response.status = "confirmed"

\* C26 witness: one committed order with two lines fulfilled in full, and one
\* committed order with a full and a short line.
C26_Witness ==
    \E p \in Requests, q \in Requests :
        /\ Committed(p) /\ Len(req[p].response.items) = 2 /\ AllLinesFull(p)
        /\ Committed(q) /\ Len(req[q].response.items) = 2
        /\ ~ShortLine(q, 1) /\ ShortLine(q, 2)

\* C27: a request line whose SKU string is a stored SKU up to letter case and
\* surrounding blanks is looked up, reserved and reported under the stored
\* SKU: the handler replaces the string by the stored SKU when the request
\* arrives, never changes it afterwards, and the commit takes each line's
\* fulfilled quantity from the stock of the SKU the outcome is reported under.
C27_LineReservedUnderNormalizedSku ==
    [][\A r \in Requests :
           /\ (req[r].pc = "idle" /\ InFlight(r)') =>
                  \A payload \in OrderCreate :
                      Start(r, payload) =>
                          \A i \in 1..Len(payload.items) :
                              normalize_sku(payload.items[i].sku) \in Skus =>
                                  /\ req'[r].items[i].sku = normalize_sku(payload.items[i].sku)
                                  /\ req'[r].items[i].qty = payload.items[i].qty
           /\ InFlight(r) => req'[r].items = req[r].items
           /\ CommitStep(r) =>
                  \A i \in 1..Len(req[r].items) :
                      LET out == req'[r].response.items[i]
                      IN /\ out.sku = req[r].items[i].sku
                         /\ out.sku \in Skus
                         /\ inventory'[out.sku] = inventory[out.sku] - out.fulfilled_qty]_vars

\* C27 witness: a committed request reserved MaxQty units of SKU A; the only
\* request lines for A with that quantity spell the SKU "a ".
C27_Witness ==
    \E r \in Requests :
        /\ Committed(r)
        /\ \E i \in 1..Len(req[r].response.items) :
               /\ req[r].response.items[i].sku = <<"A">>
               /\ req[r].response.items[i].requested_qty = MaxQty
               /\ req[r].response.items[i].fulfilled_qty = MaxQty
        /\ [sku |-> <<"A">>, qty |-> MaxQty] \notin RequestLines

\* status and few_left of a returned item agree with the stock it reports.
FlagsMatchStock(item) ==
    /\ item.status = (IF item.stock = 0 THEN "out_of_stock"
                      ELSE IF 0 < item.stock /\ item.stock < 10 THEN "few_left"
                      ELSE "available")
    /\ item.few_left = (item.status = "few_left")

\* C28: every item list_inventory, get_item or update_stock returns reports
\* the stored stock of its SKU, status out_of_stock when the stock is 0,
\* few_left when 0 < stock < 10 and available otherwise, and few_left true
\* exactly when the status is few_left.
C28_StatusFollowsStock ==
    [][/\ list_inventory =>
              /\ \A k \in Skus : \E item \in query'.items : item.sku = k
              /\ \A item \in query'.items :
                     item.stock = inventory[item.sku] /\ FlagsMatchStock(item)
       /\ \A raw \in AdminSkus :
              (get_item(raw) /\ query'.status_code = 200) =>
                  /\ query'.item.sku = normalize_sku(raw)
                  /\ query'.item.stock = inventory[query'.item.sku]
                  /\ FlagsMatchStock(query'.item)
       /\ (admin' # admin /\ admin'.status_code = 200) =>
              /\ admin'.item.stock = inventory'[admin'.item.sku]
              /\ FlagsMatchStock(admin'.item)]_vars

\* C28 witness: list_inventory returned one item with stock 9 as few_left and
\* one with stock 10 as available.
C28_Witness ==
    /\ query.status_code = 200 /\ "items" \in DOMAIN query
    /\ \E item \in query.items :
           item.stock = 9 /\ item.status = "few_left" /\ item.few_left
    /\ \E item \in query.items :
           item.stock = 10 /\ item.status = "available" /\ ~item.few_left

C30_EveryRequestEnds == \A r \in Requests : InFlight(r) ~> Done(r)

\* C30 witness: two requests that ran concurrently and named the two SKUs in
\* opposite line orders have both ended, one committed and one rejected.
C30_Witness ==
    \E p \in Requests, q \in Requests :
        /\ p # q /\ q \in hist[p].concurrent
        /\ Committed(p) /\ Done(q) /\ ~Committed(q)
        /\ req[p].items[1].sku = req[q].items[2].sku
        /\ req[p].items[2].sku = req[q].items[1].sku

\* The step that ends request r without a commit.
RejectStep(r) ==
    /\ req[r].pc # "done" /\ req'[r].pc = "done"
    /\ req'[r].response.status_code # 200

\* C31: the step that ends a rejected request changes no stored stock and no
\* order, on every failure path; once the request has ended, and while nobody
\* else has committed since it arrived, every SKU has exactly the stock it had
\* on arrival, never more.
C31_AbortRestoresExactlyOnce ==
    [][\A r \in Requests :
           RejectStep(r) =>
               /\ inventory' = inventory
               /\ orders' = orders
               /\ req'[r].writes = <<>>
               /\ hist'[r].undisturbed => inventory' = hist'[r].inv]_vars

\* C31 witness: one request was rejected for an unknown SKU after it had
\* reserved stock, another one was rejected on the write-conflict path.
C31_Witness ==
    \E p \in Requests, q \in Requests :
        /\ Raised(p) = "invalid_sku" /\ req[p].fulfilment_items # <<>>
        /\ req[p].fulfilment_items[1].fulfilled_qty > 0
        /\ Raised(q) = "WriteConflict"
        /\ inventory = hist[p].inv /\ inventory = hist[q].inv

RECURSIVE CommittedFulfilled(_, _)
\* Sum of the fulfilled_qty for SKU k over the committed requests 1..n.
CommittedFulfilled(k, n) ==
    IF n = 0 THEN 0
    ELSE (IF Committed(n) THEN FulfilledOf(req[n].response.items, k) ELSE 0)
             + CommittedFulfilled(k, n - 1)

\* C32: in every reachable state and for every SKU, the seeded stock minus
\* the current stock is the sum of the fulfilled_qty for the SKU over all
\* committed orders; no update_stock call has succeeded, so none has an
\* effect, and requests that were rejected or rolled back contribute nothing.
C32_StockConserved ==
    /\ admin.status_code # 200
    /\ \A k \in Skus :
           SeedStock[k] - inventory[k] = CommittedFulfilled(k, NumRequests)

\* C32 witness: a committed request and a rejected request that had reserved
\* the same SKU before it was rejected, and an answered update_stock request.
C32_Witness ==
    \E p \in Requests, q \in Requests, k \in Skus :
        /\ Committed(p) /\ FulfilledOf(req[p].response.items, k) > 0
        /\ Done(q) /\ ~Committed(q) /\ FulfilledOf(req[q].fulfilment_items, k) > 0
        /\ admin.status_code = 500

\* C33: once the counter record exists, no step removes it or lowers its seq,
\* and in every state its seq is at least the order_id of every persisted
\* order.
C33_CounterMonotoneAboveOrderIds ==
    [][/\ \A c \in counters : \E d \in counters' : d.id = c.id /\ d.seq >= c.seq
       /\ Cardinality(counters') <= 1
       /\ \A d \in counters' : \A o \in orders' : o.order_id <= d.seq]_vars

\* C33 witness: the counter was created next to an order persisted before it,
\* has moved on, and a later order is persisted with an id below its seq.
C33_Witness ==
    /\ PriorOrder \in orders
    /\ \E r \in Requests : Committed(r)
    /\ \E c \in counters :
           /\ c.seq = NumRequests
           /\ \A o \in orders : o.order_id < c.seq

\* C34: the items of the response of a committed request are one outcome per
\* request line, in request order, each with the line's normalized SKU and
\* requested quantity, lines that got nothing included.
C34_OneOutcomePerLine ==
    \A r \in Requests :
        Committed(r) =>
            /\ Len(req[r].response.items) = Len(req[r].items)
            /\ \A i \in 1..Len(req[r].items) :
                   /\ req[r].response.items[i].sku = req[r].items[i].sku
                   /\ req[r].response.items[i].sku = NormalizeOrderSku(req[r].items[i].sku)
                   /\ req[r].response.items[i].requested_qty = req[r].items[i].qty

\* C34 witness: a committed two-line request whose first line got nothing and
\* whose second line was fulfilled.
C34_Witness ==
    \E r \in Requests :
        /\ Committed(r) /\ Len(req[r].response.items) = 2
        /\ req[r].response.items[1].fulfilled_qty = 0
        /\ req[r].response.items[2].fulfilled_qty > 0

====
